---- MODULE Spec2Model ----
(***************************************************************************)
(* Model of the three notebooks of the repository as straight programs of  *)
(* statements run top to bottom by a kernel: the MNIST notebook            *)
(* (src/unnamed/part_000), the Iris notebook (src/unnamed/part_001) and    *)
(* the tensor basics notebook (src/examples/compyute_basics_1_tensor.ipynb)*)
(* Every statement record carries the source line of the notebook's JSON   *)
(* file it stands for.  Shell lines ("! pip install"), imports and print   *)
(* calls have no effect on the modelled state and are left out.            *)
(***************************************************************************)
EXTENDS Integers, Sequences, FiniteSets, TLC

VARIABLES nb, pc, status, gpu,
          device, devArgs,
          steps, executed, loopI, textCalls, subplotCalls,
          attrWrites, itemWrites, dicts,
          raw, sub, X, feat, targ, nLabels,
          models, params, summary,
          retain, lastFwd, reads,
          state, fs, loaded_state, keysRead

ctrl == <<nb, pc, status, gpu>>
devv == <<device, devArgs>>
cntv == <<loopI, textCalls, subplotCalls>>
mutv == <<attrWrites, itemWrites, dicts>>
datv == <<raw, sub, X, feat, targ, nLabels>>
modv == <<models, params, summary>>
fwdv == <<retain, lastFwd, reads>>
chkv == <<state, fs, loaded_state, keysRead>>
vars == <<ctrl, devv, steps, executed, cntv, mutv, datv, modv, fwdv, chkv>>

\* ---- bounds ----
\* largest number of rows a downloaded table has
MaxB == 3

\* ---- facts of the data the notebooks are written for ----
\* (B, 784): the pixel columns of an MNIST row
MnistFeatures == 784
\* the four measurements of an Iris row
IrisFeatures == 4

Notebooks == {"mnist", "iris", "tensor"}
Subsets == {"train", "val", "test"}

\* one statement: source line, operation, step of the five-step outline
\* (0: none), two names and one number the operation uses
S(line, op, step, a, b, n) ==
  [line |-> line, op |-> op, step |-> step, a |-> a, b |-> b, n |-> n]

\* ---- layers ----
Conv2D(i, o, k) == [type |-> "Conv2D", in |-> i, out |-> o, k |-> k]
Linear(i, o) == [type |-> "Linear", in |-> i, out |-> o, k |-> 0]
BatchNorm2D(c) == [type |-> "BatchNorm2D", in |-> c, out |-> c, k |-> 0]
BatchNorm1D(c) == [type |-> "BatchNorm1D", in |-> c, out |-> c, k |-> 0]
MaxPooling2D(k) == [type |-> "MaxPooling2D", in |-> 0, out |-> 0, k |-> k]
ReLU == [type |-> "ReLU", in |-> 0, out |-> 0, k |-> 0]
Dropout == [type |-> "Dropout", in |-> 0, out |-> 0, k |-> 0]
Flatten == [type |-> "Flatten", in |-> 0, out |-> 0, k |-> 0]

\* the first Linear layer declared with 512 inputs instead of 64*3*3
MnistLayers_Linear512 ==
  << Conv2D(1, 32, 5), ReLU,
     Conv2D(32, 32, 5), BatchNorm2D(32), ReLU,
     MaxPooling2D(2), Dropout,
     Conv2D(32, 64, 3), ReLU,
     Conv2D(64, 64, 3), BatchNorm2D(64), ReLU,
     MaxPooling2D(2), Dropout,
     Flatten,
     Linear(512, 256), BatchNorm1D(256), ReLU,
     Linear(256, 128), BatchNorm1D(128), ReLU,
     Linear(128, 84), BatchNorm1D(84), ReLU, Dropout,
     Linear(84, 10) >>

\* part_000 lines 113-127
MnistLayers ==
  << Conv2D(1, 32, 5), ReLU,
     Conv2D(32, 32, 5), BatchNorm2D(32), ReLU,
     MaxPooling2D(2), Dropout,
     Conv2D(32, 64, 3), ReLU,
     Conv2D(64, 64, 3), BatchNorm2D(64), ReLU,
     MaxPooling2D(2), Dropout,
     Flatten,
     Linear(576, 256), BatchNorm1D(256), ReLU,
     Linear(256, 128), BatchNorm1D(128), ReLU,
     Linear(128, 84), BatchNorm1D(84), ReLU, Dropout,
     Linear(84, 10) >>

\* part_001 lines 93-97
IrisLayers == << Linear(4, 16), ReLU, Linear(16, 3) >>

\* the model to load into declared with a hidden layer of another size
LoadedLayers_Hidden8 == << Linear(4, 8), ReLU, Linear(8, 3) >>

\* part_001 lines 240-244
LoadedLayers == << Linear(4, 16), ReLU, Linear(16, 3) >>

\* the layer list a nn.Sequential statement declares
LayersAt(n, line) ==
  IF n = "mnist" THEN MnistLayers
  ELSE IF line = 93 THEN IrisLayers ELSE LoadedLayers

\* get_module_summary(model, input_shape=...)
MnistInputShape == <<1, 28, 28>>
IrisInputShape == <<4>>
InputShape(n) == IF n = "mnist" THEN MnistInputShape ELSE IrisInputShape

\* ---- the notebooks ----
\* -- part_000, one definition per group of consecutive code cells --
MnistCellDevice ==
  << S(37, "select_device", 0, "device", "", 0) >>

MnistCellData ==
  << S(59, "read_csv", 1, "train_tensor", "", 0),
     S(63, "read_csv", 1, "test", "", 0),
     S(67, "split_tvt", 0, "train_tensor", "", 0),
     S(70, "split_xy", 0, "train", "", 0),
     S(71, "split_xy", 0, "val", "", 0),
     S(72, "split_xy", 0, "test", "", 0),
     S(75, "reshape", 2, "train", "", 0),
     S(76, "reshape", 2, "val", "", 0),
     S(77, "reshape", 2, "test", "", 0),
     S(80, "other", 0, "def scale", "", 0),
     S(85, "scale", 2, "train", "", 0),
     S(86, "scale", 2, "val", "", 0),
     S(87, "scale", 2, "test", "", 0) >>

MnistCellModel ==
  << S(113, "sequential", 3, "model", "", 0),
     S(129, "to_device", 0, "model", "device", 0),
     S(138, "summary", 0, "model", "", 0) >>

MnistCellTrain ==
  << S(160, "other", 0, "optim, history, scheduler", "", 0),
     S(164, "trainer", 4, "model", "", 0),
     S(182, "setattr", 0, "model", "True", 0),
     S(183, "train", 4, "model", "X_train", 0) >>

MnistCellHistory ==
  << S(210, "other", 0, "def plot_history", "", 0),
     S(217, "plot", 5, "plot_history", "", 0) >>

MnistCellEvaluate ==
  << S(234, "evaluate", 4, "model", "X_test", 0) >>

MnistCellConfusion ==
  << S(256, "batched", 0, "model", "X_test", 0),
     S(259, "confusion", 0, "cm", "", 0),
     S(266, "plot", 5, "imshow cm", "", 0),
     S(271, "for_text", 5, "cm", "", 0) >>

MnistCellPick ==
  << S(290, "other", 0, "i, image", "", 0),
     S(293, "plot", 5, "imshow image", "", 0) >>

MnistCellPredict ==
  << S(314, "to_device", 0, "image_tensor", "device", 0),
     S(317, "setattr", 0, "model", "True", 0),
     S(318, "forward", 0, "model", "image_tensor", 0),
     S(319, "setattr", 0, "model", "False", 0),
     S(326, "plot", 5, "bar probs", "", 0) >>

MnistCellChannels ==
  << S(347, "other", 0, "def plot_channels", "", 0),
     S(364, "read_y", 0, "conv1", "", 0),
     S(370, "plot_channels", 5, "conv1", "y", 0),
     S(379, "read_y", 0, "conv2", "", 2),
     S(385, "plot_channels", 5, "conv2", "y", 2) >>

MnistCellFilters ==
  << S(401, "other", 0, "weights1", "", 0),
     S(405, "plot_channels", 5, "conv1", "w", 0),
     S(414, "other", 0, "weights2", "", 0),
     S(418, "plot_channels", 5, "conv2", "w", 2) >>

\* the cells run out of order: the single-image prediction before the
\* batched prediction of the confusion matrix
MnistProgram_PredictFirst ==
  MnistCellDevice \o MnistCellData \o MnistCellModel \o MnistCellTrain
  \o MnistCellHistory \o MnistCellEvaluate \o MnistCellPick
  \o MnistCellPredict \o MnistCellConfusion \o MnistCellChannels
  \o MnistCellFilters

\* part_000 top to bottom
MnistProgram ==
  MnistCellDevice \o MnistCellData \o MnistCellModel \o MnistCellTrain
  \o MnistCellHistory \o MnistCellEvaluate \o MnistCellConfusion
  \o MnistCellPick \o MnistCellPredict \o MnistCellChannels
  \o MnistCellFilters

\* -- part_001, one definition per group of consecutive code cells --
IrisCellData ==
  << S(49, "read_csv", 1, "data", "", 0),
     S(52, "setitem", 0, "data", "variety", 0),
     S(53, "other", 0, "data_tensor", "", 0),
     S(56, "split_tvt", 0, "data", "", 0),
     S(59, "split_xy", 0, "train", "", 0),
     S(60, "split_xy", 0, "val", "", 0),
     S(61, "split_xy", 0, "test", "", 0),
     S(64, "normalize", 2, "train", "", 0),
     S(65, "normalize", 2, "val", "", 0),
     S(66, "normalize", 2, "test", "", 0) >>

IrisCellModel ==
  << S(93, "sequential", 3, "model", "", 0),
     S(106, "summary", 0, "model", "", 0) >>

IrisCellTrain ==
  << S(131, "other", 0, "history, prograss", "", 0),
     S(134, "trainer", 4, "model", "", 0),
     S(149, "train", 4, "model", "X_train", 0) >>

IrisCellHistory ==
  << S(167, "other", 0, "def plot_history", "", 0),
     S(177, "plot", 5, "plot_history", "", 0),
     S(178, "plot", 5, "plot_history", "", 0) >>

IrisCellEvaluate ==
  << S(197, "evaluate", 4, "model", "X_test", 0) >>

IrisCellSave ==
  << S(217, "build_dict", 0, "state", "", 0),
     S(221, "save", 0, "state", "iris_model.cp", 0) >>

IrisCellLoad ==
  << S(240, "sequential", 3, "loaded_model", "", 0),
     S(245, "other", 0, "loaded_optimizer", "", 0),
     S(248, "load", 0, "loaded_state", "iris_model.cp", 0),
     S(249, "load_state_dict", 0, "loaded_model", "model", 0),
     S(250, "load_state_dict", 0, "loaded_optimizer", "optimizer", 0),
     S(260, "other", 0, "sample", "", 0),
     S(261, "forward", 0, "loaded_model", "sample", 0) >>

\* the cells run out of order: the history is plotted before the training
IrisProgram_PlotFirst ==
  IrisCellData \o IrisCellModel \o IrisCellHistory \o IrisCellTrain
  \o IrisCellEvaluate \o IrisCellSave \o IrisCellLoad

\* part_001 top to bottom
IrisProgram ==
  IrisCellData \o IrisCellModel \o IrisCellTrain \o IrisCellHistory
  \o IrisCellEvaluate \o IrisCellSave \o IrisCellLoad

\* compyute_basics_1_tensor.ipynb top to bottom
TensorProgram ==
  << S(35, "other", 0, "a", "", 0),
     S(55, "other", 0, "b", "", 0),
     S(72, "other", 0, "a, b", "", 0),
     S(91, "other", 0, "c", "", 0),
     S(92, "to_device", 0, "d", "cuda", 0),
     S(110, "to_device", 0, "c", "cuda", 0),
     S(111, "to_device", 0, "f", "cpu", 0),
     S(132, "other", 0, "d = a + b", "", 0),
     S(136, "other", 0, "e = a @ b", "", 0),
     S(140, "other", 0, "f = cp.sum(d)", "", 0),
     S(144, "other", 0, "g = a.T", "", 0),
     S(165, "other", 0, "B", "", 0),
     S(169, "other", 0, "X", "", 0),
     S(173, "other", 0, "W", "", 0) >>

Prog(n) ==
  IF n = "mnist" THEN MnistProgram
  ELSE IF n = "iris" THEN IrisProgram ELSE TensorProgram

\* ---- helpers ----
Min(a, b) == IF a < b THEN a ELSE b
Max(a, b) == IF a > b THEN a ELSE b

RECURSIVE Prod(_)
Prod(shp) == IF shp = <<>> THEN 1 ELSE Head(shp) * Prod(Tail(shp))

\* the shape a failed shape computation yields
ShapeError == <<-1>>

\* columns of a table of a notebook: the features and one target column
Cols(n) == IF n = "mnist" THEN MnistFeatures + 1 ELSE IrisFeatures + 1

\* Python: t[:, start:stop] over n columns (0-based); stop absent when
\* hasStop is FALSE; negative bounds count from the end
NormBound(i, n) == IF i < 0 THEN Max(i + n, 0) ELSE Min(i, n)
SliceCols(sl, n) ==
  LET lo == NormBound(sl.start, n)
      hi == IF sl.hasStop THEN NormBound(sl.stop, n) ELSE n
  IN  {c \in 0..(n - 1) : lo <= c /\ c < hi}

\* Python: t[:, i]; the column, or -1 when the index is out of range
IndexCol(i, n) ==
  LET j == IF i < 0 THEN i + n ELSE i
  IN  IF 0 <= j /\ j < n THEN j ELSE -1

\* the val subset split with another slice than train and test
FeatSlice_ValFrom2(n, s) ==
  IF n = "mnist"
  THEN [start |-> IF s = "val" THEN 2 ELSE 1, hasStop |-> FALSE, stop |-> 0]
  ELSE [start |-> 0, hasStop |-> TRUE, stop |-> IF s = "val" THEN -2 ELSE -1]

\* the feature slice and the target index each split statement writes
\* part_000 lines 70-72: t[:, 1:], t[:, 0]
\* part_001 lines 59-61: t[:, :-1], t[:, -1]
FeatSlice(n, s) ==
  IF n = "mnist" THEN [start |-> 1, hasStop |-> FALSE, stop |-> 0]
  ELSE [start |-> 0, hasStop |-> TRUE, stop |-> -1]
TargIndex(n, s) == IF n = "mnist" THEN 0 ELSE -1

\* the image height written as 14
ReshapeTarget_Height14(b) == <<b, 1, 14, -1>>

\* part_000 lines 75-77: shape=(X.shape[0], 1, 28, -1)
ReshapeTarget(b) == <<b, 1, 28, -1>>

\* reshape of size elements to shape shp, where one entry may be -1
Resolve(size, shp) ==
  LET unk == {i \in 1..Len(shp) : shp[i] = -1}
      known == Prod(SelectSeq(shp, LAMBDA d : d # -1))
  IN  IF unk = {} THEN (IF known = size THEN shp ELSE ShapeError)
      ELSE IF Cardinality(unk) > 1 THEN ShapeError
      ELSE IF known = 0 THEN ShapeError
      ELSE IF size % known # 0 THEN ShapeError
      ELSE [i \in 1..Len(shp) |-> IF shp[i] = -1 THEN size \div known ELSE shp[i]]

\* output shape of one layer for one sample of shape shp
OutShape(l, shp) ==
  IF shp = ShapeError THEN ShapeError
  ELSE IF l.type = "Conv2D" THEN
    IF Len(shp) = 3 /\ shp[1] = l.in /\ shp[2] >= l.k /\ shp[3] >= l.k
    THEN <<l.out, shp[2] - l.k + 1, shp[3] - l.k + 1>> ELSE ShapeError
  ELSE IF l.type = "BatchNorm2D" THEN
    IF Len(shp) = 3 /\ shp[1] = l.in THEN shp ELSE ShapeError
  ELSE IF l.type = "BatchNorm1D" THEN
    IF Len(shp) = 1 /\ shp[1] = l.in THEN shp ELSE ShapeError
  ELSE IF l.type = "MaxPooling2D" THEN
    IF Len(shp) = 3 THEN <<shp[1], shp[2] \div l.k, shp[3] \div l.k>>
    ELSE ShapeError
  ELSE IF l.type = "Flatten" THEN <<Prod(shp)>>
  ELSE IF l.type = "Linear" THEN
    IF Len(shp) >= 1 /\ shp[Len(shp)] = l.in
    THEN [i \in 1..Len(shp) |-> IF i = Len(shp) THEN l.out ELSE shp[i]]
    ELSE ShapeError
  ELSE shp

\* the output shape of every layer of a Sequential for one input shape
ShapesOf(layers, inp) ==
  LET f[i \in 0..Len(layers)] ==
        IF i = 0 THEN inp ELSE OutShape(layers[i], f[i - 1])
  IN  [i \in 1..Len(layers) |-> f[i]]

\* a dictionary is a set of <<key, value>> pairs
Keys(d) == {p[1] : p \in d}
Lookup(d, k) == (CHOOSE p \in d : p[1] = k)[2]

\* the checkpoint built with a third entry
CheckpointDict_WithHistory ==
  { <<"model", [arch |-> models["model"], val |-> params["model"]]>>,
    <<"optimizer", [arch |-> <<>>, val |-> params["optimizer"]]>>,
    <<"history", [arch |-> <<>>, val |-> "history"]>> }

\* part_001 lines 217-220
CheckpointDict ==
  { <<"model", [arch |-> models["model"], val |-> params["model"]]>>,
    <<"optimizer", [arch |-> <<>>, val |-> params["optimizer"]]>> }

\* ---- the kernel running one notebook top to bottom ----
RawNames == {"train_tensor", "test", "data"}
ModelNames == {"model", "loaded_model"}
ParamNames == {"model", "loaded_model", "optimizer", "loaded_optimizer"}
\* values the parameters can have after training
TrainedVals == {"trained_1", "trained_2"}
\* part_000 line 126: ten digit classes
NumClasses == 10
\* part_000 line 350: plt.subplot(10, 8, i + 1)
SubplotSlots == 80

Init ==
  /\ nb \in Notebooks
  /\ gpu \in BOOLEAN
  /\ pc = 1
  /\ status = "running"
  /\ device = "unset"
  /\ devArgs = {}
  /\ steps = <<>>
  /\ executed = 0
  /\ loopI = 0
  /\ textCalls = 0
  /\ subplotCalls = 0
  /\ attrWrites = {}
  /\ itemWrites = {}
  /\ dicts = {}
  /\ raw = [r \in RawNames |-> -1]
  /\ sub = [s \in Subsets |-> -1]
  /\ X = [s \in Subsets |-> <<>>]
  /\ feat = [s \in Subsets |-> {}]
  /\ targ = [s \in Subsets |-> {}]
  /\ nLabels = 0
  /\ models = [m \in ModelNames |-> <<>>]
  /\ params = [q \in ParamNames |-> "none"]
  /\ summary = <<>>
  /\ retain = "default"
  /\ lastFwd = [input |-> "none", retain |-> "default"]
  /\ reads = {}
  /\ state = {}
  /\ fs = {}
  /\ loaded_state = {}
  /\ keysRead = {}

\* the statement the kernel is at
Cur == Prog(nb)[pc]
At(op) == status = "running" /\ Cur.op = op

\* the statement completes: the kernel moves to the next one
Advance ==
  /\ pc' = pc + 1
  /\ status' = IF pc + 1 > Len(Prog(nb)) THEN "done" ELSE "running"
  /\ steps' = IF Cur.step > 0 THEN Append(steps, Cur.step) ELSE steps
  /\ executed' = executed + 1
  /\ UNCHANGED <<nb, gpu>>

\* the statement raises: nothing in a notebook catches it, the run ends
Raise ==
  /\ pc' = pc
  /\ status' = "raised"
  /\ UNCHANGED <<nb, gpu, steps, executed>>

\* one more pass through the body of the loop the kernel is at
Iterate ==
  /\ pc' = pc
  /\ loopI' = loopI + 1
  /\ executed' = executed + 1
  /\ UNCHANGED <<nb, gpu, status, steps>>

\* statements whose effect no modelled variable sees: tensor creation and
\* arithmetic, function definitions, callbacks, random index
Other ==
  /\ At("other")
  /\ Advance
  /\ UNCHANGED <<devv, cntv, mutv, datv, modv, fwdv, chkv>>

\* the device chosen without asking for the GPU
SelectDevice_AlwaysCuda ==
  /\ At("select_device")
  /\ device' = "cuda"
  /\ Advance
  /\ UNCHANGED <<devArgs, cntv, mutv, datv, modv, fwdv, chkv>>

\* part_000 line 37
SelectDevice ==
  /\ At("select_device")
  /\ device' = IF gpu THEN "cuda" ELSE "cpu"
  /\ Advance
  /\ UNCHANGED <<devArgs, cntv, mutv, datv, modv, fwdv, chkv>>

\* the device a statement passes: the variable device or a literal
DevArg(b) == IF b = "device" THEN device ELSE b

\* a library call that is given a device
ToDevice ==
  /\ At("to_device")
  /\ devArgs' = devArgs \cup {<<Cur.line, DevArg(Cur.b)>>}
  /\ IF DevArg(Cur.b) = "cuda" /\ ~gpu THEN Raise ELSE Advance
  /\ UNCHANGED <<device, cntv, mutv, datv, modv, fwdv, chkv>>

\* pd.read_csv(url): the table has n rows, or the download fails
ReadCsv ==
  /\ At("read_csv")
  /\ \/ /\ \E n \in 0..MaxB : raw' = [raw EXCEPT ![Cur.a] = n]
        /\ Advance
     \/ /\ Raise
        /\ UNCHANGED raw
  /\ UNCHANGED <<sub, X, feat, targ, nLabels>>
  /\ UNCHANGED <<devv, cntv, mutv, modv, fwdv, chkv>>

\* part_001 line 52: data["variety"] = ...
SetItem ==
  /\ At("setitem")
  /\ itemWrites' = itemWrites \cup {<<Cur.a, Cur.b>>}
  /\ Advance
  /\ UNCHANGED <<attrWrites, dicts, devv, cntv, datv, modv, fwdv, chkv>>

\* split_train_val_test: the rows are divided over train, val and test;
\* the MNIST notebook asks for ratio_test=0.0 and drops the third part
SplitTvt ==
  /\ At("split_tvt")
  /\ \E nv \in 0..raw[Cur.a] : \E nt \in 0..(raw[Cur.a] - nv) :
        /\ nb = "mnist" => nt = 0
        /\ sub' = [s \in Subsets |->
                     IF s = "train" THEN raw[Cur.a] - nv - nt
                     ELSE IF s = "val" THEN nv
                     ELSE IF nb = "mnist" THEN raw["test"] ELSE nt]
  /\ Advance
  /\ UNCHANGED <<raw, X, feat, targ, nLabels>>
  /\ UNCHANGED <<devv, cntv, mutv, modv, fwdv, chkv>>

\* X_s, y_s = s[:, a:b], s[:, i].to_int()
SplitXy ==
  /\ At("split_xy")
  /\ IF IndexCol(TargIndex(nb, Cur.a), Cols(nb)) = -1
     THEN Raise /\ UNCHANGED <<X, feat, targ>>
     ELSE /\ feat' = [feat EXCEPT ![Cur.a] = SliceCols(FeatSlice(nb, Cur.a), Cols(nb))]
          /\ targ' = [targ EXCEPT ![Cur.a] = {IndexCol(TargIndex(nb, Cur.a), Cols(nb))}]
          /\ X' = [X EXCEPT ![Cur.a] =
                     <<sub[Cur.a], Cardinality(SliceCols(FeatSlice(nb, Cur.a), Cols(nb)))>>]
          /\ Advance
  /\ UNCHANGED <<raw, sub, nLabels>>
  /\ UNCHANGED <<devv, cntv, mutv, modv, fwdv, chkv>>

\* X_s = cp.reshape(X_s, shape=(X_s.shape[0], 1, 28, -1))
Reshape ==
  /\ At("reshape")
  /\ LET r == Resolve(Prod(X[Cur.a]), ReshapeTarget(X[Cur.a][1]))
     IN  IF r = ShapeError
         THEN Raise /\ UNCHANGED X
         ELSE X' = [X EXCEPT ![Cur.a] = r] /\ Advance
  /\ UNCHANGED <<raw, sub, feat, targ, nLabels>>
  /\ UNCHANGED <<devv, cntv, mutv, modv, fwdv, chkv>>

\* scale(X_s) and normalize(X_s, ...): the values change, the shape stays
Normalize ==
  /\ At("scale") \/ At("normalize")
  /\ Advance
  /\ UNCHANGED <<devv, cntv, mutv, datv, modv, fwdv, chkv>>

\* name = nn.Sequential(...): a new model with freshly initialised
\* parameters
Sequential ==
  /\ At("sequential")
  /\ models' = [models EXCEPT ![Cur.a] = LayersAt(nb, Cur.line)]
  /\ params' = [params EXCEPT ![Cur.a] = IF Cur.a = "model" THEN "init_model"
                                          ELSE "init_loaded_model"]
  /\ Advance
  /\ UNCHANGED <<summary, devv, cntv, mutv, datv, fwdv, chkv>>

\* get_module_summary(model, input_shape): a trial pass through the layers
Summary ==
  /\ At("summary")
  /\ LET shp == ShapesOf(models[Cur.a], InputShape(nb))
     IN  IF shp[Len(shp)] = ShapeError
         THEN Raise /\ UNCHANGED summary
         ELSE summary' = shp /\ Advance
  /\ UNCHANGED <<models, params, devv, cntv, mutv, datv, fwdv, chkv>>

\* trainer = Trainer(model=model, optimizer=..., ...)
MakeTrainer ==
  /\ At("trainer")
  /\ params' = [params EXCEPT !["optimizer"] = "init_optimizer"]
  /\ Advance
  /\ UNCHANGED <<models, summary, devv, cntv, mutv, datv, fwdv, chkv>>

\* model.retain_values = True / False
SetAttr ==
  /\ At("setattr")
  /\ retain' = Cur.b
  /\ attrWrites' = attrWrites \cup {<<Cur.a, "retain_values">>}
  /\ Advance
  /\ UNCHANGED <<lastFwd, reads, itemWrites, dicts>>
  /\ UNCHANGED <<devv, cntv, datv, modv, chkv>>

\* a forward pass of the model over the named input, under the current
\* retain_values
Fwd(input) == [input |-> input, retain |-> retain]

\* trainer.train(X_train, y_train, ...): forward passes and new parameters
Train ==
  /\ At("train")
  /\ lastFwd' = Fwd(Cur.b)
  /\ \E v \in TrainedVals :
        params' = [params EXCEPT ![Cur.a] = v, !["optimizer"] = "trained_optimizer"]
  /\ Advance
  /\ UNCHANGED <<retain, reads, models, summary, devv, cntv, mutv, datv, chkv>>

\* trainer.evaluate_model(X_test, y_test)
Evaluate ==
  /\ At("evaluate")
  /\ lastFwd' = Fwd(Cur.b)
  /\ Advance
  /\ UNCHANGED <<retain, reads, devv, cntv, mutv, datv, modv, chkv>>

\* model(image_tensor), loaded_model(sample)
Forward ==
  /\ At("forward")
  /\ lastFwd' = IF Cur.a = "model" THEN Fwd(Cur.b) ELSE lastFwd
  /\ Advance
  /\ UNCHANGED <<retain, reads, devv, cntv, mutv, datv, modv, chkv>>

\* part_000 line 256: batched(model, batch_size, device, False)(X_test)
Batched ==
  /\ At("batched")
  /\ devArgs' = devArgs \cup {<<Cur.line, device>>}
  /\ IF device = "cuda" /\ ~gpu
     THEN Raise /\ UNCHANGED lastFwd
     ELSE lastFwd' = Fwd(Cur.b) /\ Advance
  /\ UNCHANGED <<device, retain, reads, cntv, mutv, datv, modv, chkv>>

\* part_000 lines 259-263: one row and one column of cm for each distinct
\* label of y_test
Confusion ==
  /\ At("confusion")
  /\ \E l \in 1..Min(X["test"][1], NumClasses) : nLabels' = l
  /\ Advance
  /\ UNCHANGED <<raw, sub, X, feat, targ>>
  /\ UNCHANGED <<devv, cntv, mutv, modv, fwdv, chkv>>

\* plot_history(...), plt.imshow(...), plt.bar(...)
Plot ==
  /\ At("plot")
  /\ Advance
  /\ UNCHANGED <<devv, cntv, mutv, datv, modv, fwdv, chkv>>

\* the loop over the rows of cm only
ForText_RowsOnly ==
  /\ At("for_text")
  /\ IF loopI < nLabels
     THEN /\ Iterate
          /\ textCalls' = textCalls + 1
     ELSE /\ Advance
          /\ loopI' = 0
          /\ UNCHANGED textCalls
  /\ UNCHANGED subplotCalls
  /\ UNCHANGED <<devv, mutv, datv, modv, fwdv, chkv>>

\* part_000 lines 271-272: for (j, i), label in np.ndenumerate(cm):
\*     plt.text(...)
ForText ==
  /\ At("for_text")
  /\ IF loopI < nLabels * nLabels
     THEN /\ Iterate
          /\ textCalls' = textCalls + 1
     ELSE /\ Advance
          /\ loopI' = 0
          /\ UNCHANGED textCalls
  /\ UNCHANGED subplotCalls
  /\ UNCHANGED <<devv, mutv, datv, modv, fwdv, chkv>>

\* array.shape[0] of the array handed to plot_channels: the output
\* channels of the layer (y[0] is (C, H, W), sum(w, dim=1) is (C, k, k))
Channels(n) == models["model"][n + 1].out

\* part_000 lines 347-355: for i in range(array.shape[0]):
\*     plt.subplot(10, 8, i + 1) ...
PlotChannels ==
  /\ At("plot_channels")
  /\ IF loopI < Channels(Cur.n)
     THEN IF loopI + 1 > SubplotSlots
          THEN Raise /\ UNCHANGED <<loopI, subplotCalls>>
          ELSE Iterate /\ subplotCalls' = subplotCalls + 1
     ELSE /\ Advance
          /\ loopI' = 0
          /\ UNCHANGED subplotCalls
  /\ UNCHANGED textCalls
  /\ UNCHANGED <<devv, mutv, datv, modv, fwdv, chkv>>

\* conv = model.layers[n]; conv.y[0]: the output the layer kept in the
\* last forward pass; none was kept unless retain_values was True
ReadY ==
  /\ At("read_y")
  /\ IF lastFwd.retain = "True"
     THEN /\ reads' = reads \cup {[layer |-> Cur.n, input |-> lastFwd.input,
                                     retain |-> lastFwd.retain]}
          /\ Advance
     ELSE Raise /\ UNCHANGED reads
  /\ UNCHANGED <<retain, lastFwd, devv, cntv, mutv, datv, modv, chkv>>

\* part_001 lines 217-220: state = {"model": ..., "optimizer": ...}
BuildDict ==
  /\ At("build_dict")
  /\ state' = CheckpointDict
  /\ dicts' = dicts \cup {Keys(CheckpointDict)}
  /\ Advance
  /\ UNCHANGED <<fs, loaded_state, keysRead, attrWrites, itemWrites>>
  /\ UNCHANGED <<devv, cntv, datv, modv, fwdv>>

\* cp.save(state, name)
Save ==
  /\ At("save")
  /\ fs' = {f \in fs : f.name # Cur.b} \cup {[name |-> Cur.b, content |-> state]}
  /\ Advance
  /\ UNCHANGED <<state, loaded_state, keysRead>>
  /\ UNCHANGED <<devv, cntv, mutv, datv, modv, fwdv>>

\* loaded_state = cp.load(name)
Load ==
  /\ At("load")
  /\ IF \E f \in fs : f.name = Cur.b
     THEN /\ loaded_state' = (CHOOSE f \in fs : f.name = Cur.b).content
          /\ Advance
     ELSE Raise /\ UNCHANGED loaded_state
  /\ UNCHANGED <<state, fs, keysRead>>
  /\ UNCHANGED <<devv, cntv, mutv, datv, modv, fwdv>>

\* target.load_state_dict(loaded_state[key])
LoadStateDict ==
  /\ At("load_state_dict")
  /\ IF Cur.b \notin Keys(loaded_state)
     THEN Raise /\ UNCHANGED <<keysRead, params>>
     ELSE /\ keysRead' = keysRead \cup {Cur.b}
          /\ IF Cur.a \in ModelNames
                /\ ShapesOf(Lookup(loaded_state, Cur.b).arch, IrisInputShape)
                     # ShapesOf(models[Cur.a], IrisInputShape)
             THEN Raise /\ UNCHANGED params
             ELSE /\ params' = [params EXCEPT ![Cur.a] = Lookup(loaded_state, Cur.b).val]
                  /\ Advance
  /\ UNCHANGED <<state, fs, loaded_state, models, summary>>
  /\ UNCHANGED <<devv, cntv, mutv, datv, fwdv>>

Next ==
  \/ Other
  \/ SelectDevice
  \/ ToDevice
  \/ ReadCsv
  \/ SetItem
  \/ SplitTvt
  \/ SplitXy
  \/ Reshape
  \/ Normalize
  \/ Sequential
  \/ Summary
  \/ MakeTrainer
  \/ SetAttr
  \/ Train
  \/ Evaluate
  \/ Forward
  \/ Batched
  \/ Confusion
  \/ Plot
  \/ ForText
  \/ PlotChannels
  \/ ReadY
  \/ BuildDict
  \/ Save
  \/ Load
  \/ LoadStateDict

Spec == Init /\ [][Next]_vars

\* ---------------------------------------------------------------------
\* Properties
\* ---------------------------------------------------------------------

\* C1 as stated: every notebook run to its end has performed the five
\* steps fetch, reshape/normalize, declare layers, trainer, plot, each
\* present and none before its predecessor.
C1_Original ==
  /\ \A i, j \in DOMAIN steps : i < j => steps[i] <= steps[j]
  /\ status = "done" => {steps[i] : i \in DOMAIN steps} = 1..5

\* C1 amended: in the MNIST and the Iris notebook a step is first performed
\* only after every earlier step of the outline has been performed, and a
\* complete run has performed all five; later statements return to earlier
\* steps (evaluate after the history plot, a second Sequential in Iris);
\* the tensor basics notebook performs none of the five steps.
C1_FirstOccurrencesInOrder ==
  /\ nb \in {"mnist", "iris"} =>
       /\ \A i \in DOMAIN steps : \A k \in 1..(steps[i] - 1) :
            \E j \in 1..(i - 1) : steps[j] = k
       /\ status = "done" => {steps[i] : i \in DOMAIN steps} = 1..5
       /\ status = "done" => \E i, j \in DOMAIN steps : i < j /\ steps[i] > steps[j]
  /\ nb = "tensor" => steps = <<>>

C1_Witness ==
  /\ nb = "iris"
  /\ status = "done"
  /\ Len(steps) > 5

\* C2 as stated: no statement assigns to an attribute of a library object
\* and no statement builds a dictionary of its own.
C2_Original ==
  /\ attrWrites = {}
  /\ dicts = {}

\* C2 amended: the only attribute a notebook assigns is model.retain_values
\* (MNIST notebook only), the only dictionary a notebook builds is the
\* checkpoint with exactly the keys "model" and "optimizer" (Iris notebook
\* only), the only item assignment is data["variety"] (Iris notebook only);
\* a complete MNIST run has made the assignment, a complete Iris run has
\* built the dictionary, and the tensor basics notebook does none of these.
C2_OnlyRetainValuesAndCheckpoint ==
  /\ attrWrites \subseteq {<<"model", "retain_values">>}
  /\ dicts \subseteq {{"model", "optimizer"}}
  /\ itemWrites \subseteq {<<"data", "variety">>}
  /\ attrWrites # {} => nb = "mnist"
  /\ dicts # {} \/ itemWrites # {} => nb = "iris"
  /\ status = "done" /\ nb = "mnist" => attrWrites # {}
  /\ status = "done" /\ nb = "iris" => dicts # {} /\ itemWrites # {}

C2_Witness ==
  /\ nb = "iris"
  /\ status = "done"
  /\ dicts = {{"model", "optimizer"}}

\* C3 as stated: with no GPU, a notebook never chooses another device
\* itself; every library call that is given a device is given cuda.
C3_Original ==
  ~gpu => /\ device # "cpu"
          /\ \A d \in devArgs : d[2] = "cuda"

\* C3 amended: with no GPU, the tensor basics notebook reaches the library
\* call of line 92 with cuda and the run ends there with the library's
\* failure; the MNIST notebook chooses cpu itself (line 37), gives every
\* library call cpu and never fails in a call that is given a device; the
\* Iris notebook selects no device and gives none to the library.
C3_DeviceFailureOnlyInTensorNotebook ==
  ~gpu =>
    /\ nb = "tensor" =>
         /\ devArgs \subseteq {<<92, "cuda">>}
         /\ devArgs # {} => status = "raised" /\ Cur.line = 92
         /\ status # "done"
    /\ nb = "mnist" =>
         /\ device \in {"unset", "cpu"}
         /\ \A d \in devArgs : d[2] = "cpu"
         /\ status = "raised" => Cur.op \notin {"to_device", "batched"}
         /\ pc > 1 => device = "cpu"
    /\ nb = "iris" => device = "unset" /\ devArgs = {}

C3_Witness ==
  /\ ~gpu
  /\ nb = "tensor"
  /\ status = "raised"
  /\ devArgs = {<<92, "cuda">>}

\* C4 as stated: every notebook is one straight-line path: each statement
\* the kernel has passed was executed exactly once and nothing else was.
C4_Original ==
  executed = pc - 1

\* C4 amended: the Iris and the tensor basics notebook execute each
\* statement once, in order, until the end or until a library call raises;
\* the MNIST notebook chooses its device by a conditional on the
\* environment, calls plt.text once per cell of the confusion matrix (the
\* square of the number of distinct test labels, so the count depends on
\* the data) and plot_channels makes one subplot per channel (32 for each
\* of its four calls).
C4_LoopsOnlyInMnist ==
  /\ nb # "mnist" => executed = pc - 1 /\ textCalls = 0 /\ subplotCalls = 0
  /\ nb = "mnist" =>
       /\ executed = pc - 1 + textCalls + subplotCalls
       /\ device # "unset" => device = IF gpu THEN "cuda" ELSE "cpu"
       /\ textCalls <= nLabels * nLabels
       /\ (\E i \in 1..(pc - 1) : MnistProgram[i].op = "for_text")
             => textCalls = nLabels * nLabels
       /\ status = "done" => subplotCalls = 4 * 32

C4_Witness ==
  /\ nb = "mnist"
  /\ status = "done"
  /\ nLabels = 2
  /\ textCalls = 4

\* C5: after the Iris notebook has loaded the checkpoint, the file read is
\* the file written, the keys read are the keys written, the loaded model
\* has the layers of the saved model (Linear 4->16, ReLU, Linear 16->3)
\* and the loaded parameters equal the saved ones; no load statement
\* raises.
C5_SaveLoadRoundTrip ==
  nb = "iris" =>
    /\ status = "raised" => Cur.op = "read_csv"
    /\ (\E i \in 1..(pc - 1) : IrisProgram[i].line = 250) =>
         /\ \E f \in fs : /\ f.name = "iris_model.cp"
                          /\ f.content = state
                          /\ loaded_state = f.content
         /\ Keys(state) = {"model", "optimizer"}
         /\ keysRead = Keys(state)
         /\ models["loaded_model"] = models["model"]
         /\ models["model"] = <<Linear(4, 16), ReLU, Linear(16, 3)>>
         /\ params["loaded_model"] = params["model"]
         /\ params["loaded_optimizer"] = params["optimizer"]
         /\ params["model"] \in TrainedVals

C5_Witness ==
  /\ nb = "iris"
  /\ status = "done"
  /\ params["loaded_model"] = "trained_2"
  /\ params["model"] = "trained_2"

\* C6: in the MNIST notebook, whenever the kernel is at a read of a
\* layer's retained output, and for every such read made, the most recent
\* forward pass of the model is model(image_tensor) and it ran while
\* retain_values was True; the reads are of layers 0 and 2.
C6_ReadsSeeSingleImagePass ==
  nb = "mnist" =>
    /\ pc <= Len(MnistProgram) /\ Cur.op = "read_y" =>
         /\ lastFwd = [input |-> "image_tensor", retain |-> "True"]
         /\ status # "raised"
    /\ \A r \in reads : /\ r.input = "image_tensor"
                        /\ r.retain = "True"
                        /\ r.layer \in {0, 2}
                        /\ models["model"][r.layer + 1].type = "Conv2D"
    /\ status = "done" => {r.layer : r \in reads} = {0, 2}

C6_Witness ==
  /\ nb = "mnist"
  /\ status = "done"
  /\ Cardinality(reads) = 2
  /\ retain = "False"

\* C7 as stated: for every batch size B >= 0 the reshape of each of
\* X_train, X_val, X_test succeeds and yields (B, 1, 28, 28).
C7_Original ==
  nb = "mnist" =>
    /\ pc <= Len(MnistProgram) /\ Cur.op = "reshape" => status # "raised"
    /\ \A s \in Subsets : Len(X[s]) = 4 => X[s] = <<sub[s], 1, 28, 28>>

\* C7 amended: for every batch size B >= 1 and each of X_train, X_val,
\* X_test, the target (B, 1, 28, -1) resolves -1 to 28, the element count
\* B*784 is preserved and the batch dimension is unchanged; for B = 0 the
\* -1 cannot be resolved and the reshape raises.
C7_ReshapeForPositiveBatch ==
  nb = "mnist" =>
    /\ pc <= Len(MnistProgram) /\ Cur.op = "reshape" =>
         (status = "raised" => X[Cur.a][1] = 0)
    /\ \A s \in Subsets :
         /\ Len(X[s]) = 2 => X[s] = <<sub[s], MnistFeatures>>
         /\ Len(X[s]) = 4 =>
              /\ sub[s] >= 1
              /\ X[s] = <<sub[s], 1, 28, 28>>
              /\ Prod(X[s]) = sub[s] * MnistFeatures

C7_Witness ==
  /\ nb = "mnist"
  /\ X["train"] = <<2, 1, 28, 28>>
  /\ X["val"] = <<1, 1, 28, 28>>
  /\ X["test"] = <<3, 1, 28, 28>>

\* C8: once a subset is split, its feature columns and its target column
\* partition the columns of the table: in MNIST the target is column 0 and
\* the features are columns 1..784, in Iris the target is the last column
\* and the features are all columns before it; all split subsets are split
\* alike and no split raises.
C8_SplitPartitionsColumns ==
  /\ pc <= Len(Prog(nb)) /\ Cur.op = "split_xy" => status # "raised"
  /\ \A s \in Subsets :
       /\ (\E i \in 1..(pc - 1) : Prog(nb)[i].op = "split_xy" /\ Prog(nb)[i].a = s)
            => targ[s] # {}
       /\ targ[s] # {} =>
            /\ feat[s] \cup targ[s] = 0..(Cols(nb) - 1)
            /\ feat[s] \cap targ[s] = {}
            /\ Cardinality(targ[s]) = 1
            /\ nb = "mnist" => targ[s] = {0} /\ feat[s] = 1..784
            /\ nb = "iris" => targ[s] = {Cols(nb) - 1} /\ feat[s] = 0..(Cols(nb) - 2)
            /\ \A t \in Subsets : targ[t] # {} => feat[t] = feat[s] /\ targ[t] = targ[s]

C8_Witness ==
  /\ nb = "iris"
  /\ targ["train"] = {4}
  /\ targ["val"] = {4}
  /\ targ["test"] = {4}
  /\ feat["test"] = {0, 1, 2, 3}

\* C9: the summary pass of the MNIST model over an input (1, 28, 28) does
\* not raise; the spatial size goes 28 -> 24 -> 20 -> 10 -> 8 -> 6 -> 3;
\* every layer that declares an input count declares the count the layer
\* before it puts out; the flattened size is 64*3*3 = 576, the input count
\* of the first Linear layer; the last layer puts out 10 values.
C9_LayerSizesChain ==
  nb = "mnist" =>
    /\ pc <= Len(MnistProgram) /\ Cur.op = "summary" => status # "raised"
    /\ (\E i \in 1..(pc - 1) : MnistProgram[i].op = "summary") => summary # <<>>
    /\ summary # <<>> =>
         LET layers == models["model"]
             inShape(i) == IF i = 1 THEN MnistInputShape ELSE summary[i - 1]
             conv == {i \in DOMAIN layers : layers[i].type \in {"Conv2D", "MaxPooling2D"}}
         IN  /\ Len(summary) = Len(layers)
             /\ [i \in conv |-> summary[i][2]]
                  = (1 :> 24 @@ 3 :> 20 @@ 6 :> 10 @@ 8 :> 8 @@ 10 :> 6 @@ 13 :> 3)
             /\ \A i \in conv : summary[i][3] = summary[i][2]
             /\ \A i \in DOMAIN layers :
                  layers[i].in # 0 =>
                    layers[i].in = IF layers[i].type \in {"Conv2D", "BatchNorm2D"}
                                   THEN inShape(i)[1]
                                   ELSE inShape(i)[Len(inShape(i))]
             /\ \E i \in DOMAIN layers :
                  /\ layers[i].type = "Flatten"
                  /\ summary[i - 1] = <<64, 3, 3>>
                  /\ summary[i] = <<64 * 3 * 3>>
                  /\ layers[i + 1] = Linear(576, 256)
             /\ summary[Len(summary)] = <<NumClasses>>

C9_Witness ==
  /\ nb = "mnist"
  /\ status = "done"
  /\ Len(summary) = 26
  /\ summary[15] = <<576>>

====
